---- MODULE Spec2Model ----
(***************************************************************************)
(* Model of rotate.c (Motion's image rotation module).                     *)
(*                                                                         *)
(* Memory blocks are functions from byte offsets 0..n-1 to byte values.    *)
(* A byte that was never written (fresh malloc memory, or the value an     *)
(* out-of-bounds read produces) is the value Poison: whatever the build    *)
(* would find there.  An access outside a block sets the ghost flag oob.   *)
(*                                                                         *)
(* Two specifications:                                                     *)
(*   Spec      - the life of one struct context: rotate_init, any number   *)
(*               of rotate_map calls, rotate_deinit.                       *)
(*   SpecXform - the three static transform functions applied, in any      *)
(*               order, to small rasters.                                  *)
(***************************************************************************)
EXTENDS Integers, Sequences, FiniteSets

\* ------------------------------------------------------------------ bounds

\* Sides of the rasters of SpecXform are 1..MaxSide.
MaxSide == 4
\* At most MaxOps transform calls in a behaviour of SpecXform.
MaxOps == 2
\* Capture dimensions are DimUnit*k for k in 1..MaxDimUnits.
MaxDimUnits == 2
\* Requested angles are 90*k - 1, 90*k and 90*k + 1 for k in -MaxTurns..MaxTurns.
MaxTurns == 4

\* Motion requires width and height to be multiples of 16.
DimUnit == 16

\* ------------------------------------------------------------------ state

VARIABLES
    pc,              \* "start" | "ready" | "mapped" | "done": position in the context's life
    conf_rotate_deg, \* cnt->conf.rotate_deg
    degrees,         \* cnt->rotate_data.degrees
    cap_width,       \* cnt->rotate_data.cap_width
    cap_height,      \* cnt->rotate_data.cap_height
    imgs_width,      \* cnt->imgs.width
    imgs_height,     \* cnt->imgs.height
    imgs_type,       \* cnt->imgs.type
    temp_buf,        \* cnt->rotate_data.temp_buf: "NULL" or "block"
    heap,            \* contents of the block temp_buf points to
    map,             \* the frame handed to the last rotate_map call, as it left it
    ret,             \* the last rotate_map call's return value
    \* ghost variables
    req,             \* the angle and capture size rotate_init was entered with
    post_init,       \* the rotation state as rotate_init left it
    map_pat,         \* the pattern of the frame handed to the last rotate_map call
    n_malloc,        \* calls of mymalloc so far
    n_free,          \* calls of free so far
    temp_wr,         \* per byte of the block: writes by the last call's rot90 calls
    oob,             \* the last rotate_map call accessed a byte outside a block
    \* SpecXform
    xbuf,            \* the raster
    xw, xh,          \* its width and height
    xorig,           \* ghost: the raster before the first call
    xhist,           \* ghost: the calls made so far
    xprev,           \* ghost: the raster before the last call
    xwr,             \* ghost: per byte, writes by the last call
    xoob             \* ghost: the last call accessed a byte outside a block

ctx_vars == <<pc, conf_rotate_deg, degrees, cap_width, cap_height, imgs_width,
              imgs_height, imgs_type, temp_buf, heap, map, ret, req, post_init,
              map_pat, n_malloc, n_free, temp_wr, oob>>
x_vars == <<xbuf, xw, xh, xorig, xhist, xprev, xwr, xoob>>
vars == <<ctx_vars, x_vars>>

\* ------------------------------------------------------------------ memory

\* The value of a byte nothing has written: no byte value a frame holds.
Poison == -1

\* A block of n bytes nothing has written yet.
FreshBlock(n) == [i \in 0..(n - 1) |-> Poison]
NoBlock == FreshBlock(0)
ZeroCounts(n) == [i \in 0..(n - 1) |-> 0]

\* Byte i of frame pattern p; pattern 0 is "i mod 256".
Pixel(p, i) == (i * (2 * p + 1) + p * (i \div 256)) % 256
Frame(p, n) == [i \in 0..(n - 1) |-> Pixel(p, i)]

\* A destination block under transformation: its bytes, how often each was
\* written, and whether any access fell outside a block.
Dest(m) == [mem |-> m, wr |-> ZeroCounts(Cardinality(DOMAIN m)), oob |-> FALSE]

\* *p as an rvalue; outside the block the read yields whatever lies there.
Rd(m, i) == IF i \in DOMAIN m THEN m[i] ELSE Poison

(***************************************************************************)
(* The loops of the three transforms run over thousands of bytes, so each  *)
(* is given by its passes: pass k of a loop reads and writes the bytes the *)
(* operators below name, and the block after the loop holds, at every byte *)
(* some pass wrote, what that pass stored there.  No two passes of a loop  *)
(* write the same byte, and no pass reads a byte another pass of the same  *)
(* call wrote (rot90cw and rot90ccw read one block and write another;      *)
(* reverse_inplace_quad, called with a size that is a multiple of 4, swaps *)
(* disjoint quads).                                                        *)
(***************************************************************************)

\* ------------------------------------------------------- reverse_inplace_quad

\* Passes of "while (nsrc < ndst)": nsrc = src + 4k and ndst = src + size - 4 - 4k
\* in pass k, so the loop runs for the k with 8k < size - 4.
reverse_passes(size) == IF size > 4 THEN (size + 3) \div 8 ELSE 0

\* nsrc and ndst (as byte offsets) in pass k.
reverse_nsrc(k, src) == src + 4 * k
reverse_ndst(k, src, size) == (src + size - 4) - 4 * k

\* The loop body with the quad stored at *nsrc not byte-swapped.
reverse_source_oneswap(i, src, size) ==
    LET off == i - src
        n   == reverse_passes(size)
    IN  IF off \in 0..(4 * n - 1)
        THEN reverse_ndst(off \div 4, src, size) + (off % 4)
        ELSE IF off \in (size - 4 * n)..(size - 1)
        THEN LET k == (size - 1 - off) \div 4
             IN  reverse_nsrc(k, src) + 3 - (i - reverse_ndst(k, src, size))
        ELSE i

\* The byte whose value byte i holds after the loop.  In pass k,
\*   tmp = bswap_32(*ndst); *ndst = bswap_32(*nsrc); *nsrc = tmp;
\* stores at nsrc + b the byte from ndst + 3 - b, and at ndst + b the byte from
\* nsrc + 3 - b (bswap_32 reverses the four bytes of a quad, on either byte
\* order).  A byte of no pass keeps its value.
reverse_source(i, src, size) ==
    LET off == i - src
        n   == reverse_passes(size)
    IN  IF off \in 0..(4 * n - 1)
        THEN reverse_ndst(off \div 4, src, size) + 3 - (off % 4)
        ELSE IF off \in (size - 4 * n)..(size - 1)
        THEN LET k == (size - 1 - off) \div 4
             IN  reverse_nsrc(k, src) + 3 - (i - reverse_ndst(k, src, size))
        ELSE i

\* reverse_inplace_quad(st.mem + src, size), size a multiple of 4.
reverse_inplace_quad(st, src, size) ==
    LET n == reverse_passes(size)
        touched(i) == (i - src) \in 0..(4 * n - 1)
                          \/ (i - src) \in (size - 4 * n)..(size - 1)
    IN  [mem |-> [i \in DOMAIN st.mem |-> Rd(st.mem, reverse_source(i, src, size))],
         wr  |-> [i \in DOMAIN st.wr |-> IF touched(i) THEN st.wr[i] + 1 ELSE st.wr[i]],
         oob |-> \/ st.oob
                 \/ \E k \in 0..(n - 1), b \in 0..3 :
                        \/ reverse_nsrc(k, src) + b \notin DOMAIN st.mem
                        \/ reverse_ndst(k, src, size) + b \notin DOMAIN st.mem]

\* ------------------------------------------------------------ rot90cw, rot90ccw

\* rot90cw with the rows of the source read top to bottom.
rot90_src_top_down(k, src, size, width, height) ==
    (src + (k \div height)) + (k % height) * width

\* The byte pass k reads, in rot90cw and rot90ccw alike:
\*   for (base = endp - width; base < endp; base++) {
\*       src = base;
\*       for (j = 0; j < height; j++, src -= width) ... = *src;
\* Pass k is the pass j = k % height of the inner loop within the pass
\* k \div height of the outer loop; endp = src + size.
rot90_src(k, src, size, width, height) ==
    (src + size - width + (k \div height)) - (k % height) * width

\* The byte pass k of rot90cw writes: *dst++ = ...
rot90cw_dst(k, dst) == dst + k
\* The pass of rot90cw that writes byte i.
rot90cw_pass(i, dst) == i - dst

\* rot90cw(srcm + src, st.mem + dst, size, width, height)
rot90cw(srcm, src, st, dst, size, width, height) ==
    LET n == width * height
    IN  [mem |-> [i \in DOMAIN st.mem |->
                    IF rot90cw_pass(i, dst) \in 0..(n - 1)
                    THEN Rd(srcm, rot90_src(rot90cw_pass(i, dst), src, size, width, height))
                    ELSE st.mem[i]],
         wr  |-> [i \in DOMAIN st.wr |->
                    IF rot90cw_pass(i, dst) \in 0..(n - 1)
                    THEN st.wr[i] + 1 ELSE st.wr[i]],
         oob |-> \/ st.oob
                 \/ \E k \in 0..(n - 1) :
                        \/ rot90_src(k, src, size, width, height) \notin DOMAIN srcm
                        \/ rot90cw_dst(k, dst) \notin DOMAIN st.mem]

\* The byte pass k of rot90ccw writes: dst = dst + size - 1; ... *dst-- = ...
rot90ccw_dst(k, dst, size) == (dst + size - 1) - k

\* rot90ccw filling dst from its first byte upwards, as rot90cw does.
rot90ccw_pass_ascending(i, dst, size) == i - dst

\* The pass of rot90ccw that writes byte i.
rot90ccw_pass(i, dst, size) == (dst + size - 1) - i

\* rot90ccw(srcm + src, st.mem + dst, size, width, height)
rot90ccw(srcm, src, st, dst, size, width, height) ==
    LET n == width * height
    IN  [mem |-> [i \in DOMAIN st.mem |->
                    IF rot90ccw_pass(i, dst, size) \in 0..(n - 1)
                    THEN Rd(srcm, rot90_src(rot90ccw_pass(i, dst, size), src, size,
                                            width, height))
                    ELSE st.mem[i]],
         wr  |-> [i \in DOMAIN st.wr |->
                    IF rot90ccw_pass(i, dst, size) \in 0..(n - 1)
                    THEN st.wr[i] + 1 ELSE st.wr[i]],
         oob |-> \/ st.oob
                 \/ \E k \in 0..(n - 1) :
                        \/ rot90_src(k, src, size, width, height) \notin DOMAIN srcm
                        \/ rot90ccw_dst(k, dst, size) \notin DOMAIN st.mem]

\* The context before rotate_init: nothing allocated, no frame seen.
CtxStart ==
    /\ pc = "start"
    /\ conf_rotate_deg = 0 /\ degrees = 0
    /\ cap_width = 0 /\ cap_height = 0 /\ imgs_width = 0 /\ imgs_height = 0
    /\ imgs_type = "GREY"
    /\ temp_buf = "NULL" /\ heap = NoBlock /\ map = NoBlock /\ ret = 0
    /\ req = [angle |-> 0, width |-> 0, height |-> 0]
    /\ post_init = [degrees |-> 0, width |-> 0, height |-> 0, cap_width |-> 0,
                    cap_height |-> 0, temp_buf |-> "NULL", size |-> 0]
    /\ map_pat = 0 /\ n_malloc = 0 /\ n_free = 0
    /\ temp_wr = NoBlock /\ oob = FALSE

\* ------------------------------------------------------------------ SpecXform

Sides == 1..MaxSide
\* Frames and rasters hold one of these patterns (see Pixel).
Patterns == {0, 1}

XInit ==
    /\ \E w \in Sides, h \in Sides, p \in Patterns :
         /\ xw = w
         /\ xh = h
         /\ xbuf = Frame(p, w * h)
         /\ xorig = Frame(p, w * h)
         /\ xprev = Frame(p, w * h)
         /\ xwr = ZeroCounts(w * h)
    /\ xhist = <<>>
    /\ xoob = FALSE
    /\ CtxStart

\* rot90cw(xbuf, dst, size, xw, xh) into a fresh block, which becomes the raster.
call_rot90cw ==
    /\ Len(xhist) < MaxOps
    /\ LET size == xw * xh
           r == rot90cw(xbuf, 0, Dest(FreshBlock(size)), 0, size, xw, xh)
       IN  /\ xbuf' = r.mem
           /\ xwr' = r.wr
           /\ xoob' = r.oob
    /\ xprev' = xbuf
    /\ xw' = xh
    /\ xh' = xw
    /\ xhist' = Append(xhist, "cw")
    /\ UNCHANGED <<xorig, ctx_vars>>

\* rot90ccw(xbuf, dst, size, xw, xh) into a fresh block, which becomes the raster.
call_rot90ccw ==
    /\ Len(xhist) < MaxOps
    /\ LET size == xw * xh
           r == rot90ccw(xbuf, 0, Dest(FreshBlock(size)), 0, size, xw, xh)
       IN  /\ xbuf' = r.mem
           /\ xwr' = r.wr
           /\ xoob' = r.oob
    /\ xprev' = xbuf
    /\ xw' = xh
    /\ xh' = xw
    /\ xhist' = Append(xhist, "ccw")
    /\ UNCHANGED <<xorig, ctx_vars>>

\* reverse_inplace_quad(xbuf, size); size is a multiple of 4 (the function's precondition).
call_reverse_inplace_quad ==
    /\ Len(xhist) < MaxOps
    /\ (xw * xh) % 4 = 0
    /\ LET r == reverse_inplace_quad(Dest(xbuf), 0, xw * xh)
       IN  /\ xbuf' = r.mem
           /\ xwr' = r.wr
           /\ xoob' = r.oob
    /\ xprev' = xbuf
    /\ xhist' = Append(xhist, "rev")
    /\ UNCHANGED <<xw, xh, xorig, ctx_vars>>

XNext == call_rot90cw \/ call_rot90ccw \/ call_reverse_inplace_quad

SpecXform == XInit /\ [][XNext]_vars

\* ------------------------------------------------------------------ rotate_init

VIDEO_PALETTE_YUV420P == "YUV420P"
VIDEO_PALETTE_GREY == "GREY"
\* Any palette rotate_init has no case for.
VIDEO_PALETTE_RGB24 == "RGB24"
Palettes == {VIDEO_PALETTE_YUV420P, VIDEO_PALETTE_GREY, VIDEO_PALETTE_RGB24}

\* C's a % b for b > 0: the quotient truncates toward zero, so the result has a's sign.
CRem(a, b) == IF a >= 0 THEN a % b ELSE -((-a) % b)

\* if ((rotate_deg % 90) > 0) degrees = 0; else degrees = rotate_deg % 360;
init_degrees(rotate_deg) ==
    IF CRem(rotate_deg, 90) > 0 THEN 0 ELSE CRem(rotate_deg, 360)

\* conf.rotate_deg after the same test: zeroed when the test rejects the angle.
init_conf_rotate_deg(rotate_deg) ==
    IF CRem(rotate_deg, 90) > 0 THEN 0 ELSE rotate_deg

\* The switch on imgs.type with the 3/2 of the planar case left out.
init_temp_size_no_chroma(type, width, height) == width * height

\* The switch on imgs.type: the size of the block for 90 and 270 degrees.
init_temp_size(type, width, height) ==
    IF type = VIDEO_PALETTE_YUV420P
    THEN (width * height * 3) \div 2
    ELSE width * height

\* mymalloc(size): Motion's allocator; it returns a block or ends the process.
mymalloc(size) == FreshBlock(size)

\* What rotate_init leaves in the context, entered with conf.rotate_deg = rotate_deg,
\* imgs.type = type, imgs.width = width and imgs.height = height.
rotate_init_result(rotate_deg, type, width, height) ==
    LET deg  == init_degrees(rotate_deg)
        swap == deg = 90 \/ deg = 270
        ow   == IF swap THEN height ELSE width
        oh   == IF swap THEN width ELSE height
        base == [conf_rotate_deg |-> init_conf_rotate_deg(rotate_deg),
                 degrees |-> deg, cap_width |-> width, cap_height |-> height,
                 width |-> ow, height |-> oh, temp_buf |-> "NULL", heap |-> NoBlock]
    IN  IF deg = 0
        THEN base
        ELSE IF type \notin {VIDEO_PALETTE_YUV420P, VIDEO_PALETTE_GREY}
        THEN [base EXCEPT !.degrees = 0]
        ELSE IF deg = 90 \/ deg = 270
        THEN [base EXCEPT !.temp_buf = "block",
                          !.heap = mymalloc(init_temp_size(type, ow, oh))]
        ELSE base

Dims == {DimUnit * k : k \in 1..MaxDimUnits}
RequestedAngles == {90 * k + d : k \in (-MaxTurns)..MaxTurns, d \in {-1, 0, 1}}

rotate_init ==
    /\ pc = "start"
    /\ \E a \in RequestedAngles, t \in Palettes, w \in Dims, h \in Dims :
         LET r == rotate_init_result(a, t, w, h)
         IN  /\ conf_rotate_deg' = r.conf_rotate_deg
             /\ degrees' = r.degrees
             /\ cap_width' = r.cap_width
             /\ cap_height' = r.cap_height
             /\ imgs_width' = r.width
             /\ imgs_height' = r.height
             /\ imgs_type' = t
             /\ temp_buf' = r.temp_buf
             /\ heap' = r.heap
             /\ n_malloc' = IF r.temp_buf = "NULL" THEN n_malloc ELSE n_malloc + 1
             /\ req' = [angle |-> a, width |-> w, height |-> h]
             /\ post_init' = [degrees |-> r.degrees, width |-> r.width,
                              height |-> r.height, cap_width |-> r.cap_width,
                              cap_height |-> r.cap_height, temp_buf |-> r.temp_buf,
                              size |-> Cardinality(DOMAIN r.heap)]
             /\ temp_wr' = ZeroCounts(Cardinality(DOMAIN r.heap))
    /\ pc' = "ready"
    /\ UNCHANGED <<map, ret, map_pat, n_free, oob, x_vars>>

\* ------------------------------------------------------------------ rotate_deinit

\* if (temp_buf) free(temp_buf);   the pointer itself is left as it was.
rotate_deinit ==
    /\ pc \in {"ready", "mapped"}
    /\ IF temp_buf # "NULL"
       THEN /\ n_free' = n_free + 1
            /\ heap' = NoBlock
            /\ temp_wr' = NoBlock
       ELSE UNCHANGED <<n_free, heap, temp_wr>>
    /\ pc' = "done"
    /\ UNCHANGED <<conf_rotate_deg, degrees, cap_width, cap_height, imgs_width,
                   imgs_height, imgs_type, temp_buf, map, ret, req, post_init,
                   map_pat, n_malloc, oob, x_vars>>

\* ------------------------------------------------------------------ rotate_map

\* size: the bytes of the whole frame.
map_size(type, width, height) ==
    IF type = VIDEO_PALETTE_YUV420P
    THEN (width * height * 3) \div 2
    ELSE width * height

\* The planes with the V plane taken at the U plane's offset.
map_planes_v_at_u(type, width, height) ==
    LET wh == width * height
        y  == [off |-> 0, size |-> wh, width |-> width, height |-> height]
        u  == [off |-> wh, size |-> wh \div 4,
               width |-> width \div 2, height |-> height \div 2]
    IN  IF type = VIDEO_PALETTE_YUV420P THEN <<y, u, u>> ELSE <<y>>

\* The planes rotate_map transforms, in order: offset, size (wh, wh4), width (width,
\* w2) and height (height, h2) of each.
map_planes(type, width, height) ==
    LET wh  == width * height
        wh4 == wh \div 4
        w2  == width \div 2
        h2  == height \div 2
        y   == [off |-> 0, size |-> wh, width |-> width, height |-> height]
        u   == [off |-> wh, size |-> wh4, width |-> w2, height |-> h2]
        v   == [off |-> wh + wh4, size |-> wh4, width |-> w2, height |-> h2]
    IN  IF type = VIDEO_PALETTE_YUV420P THEN <<y, u, v>> ELSE <<y>>

\* memcpy(dst, src, n): the bytes of dst afterwards.
memcpy(dst, src, n) == [i \in DOMAIN dst |-> IF i < n THEN Rd(src, i) ELSE dst[i]]
memcpy_oob(dst, src, n) == n > Cardinality(DOMAIN dst) \/ n > Cardinality(DOMAIN src)

\* Body of the value of e: e is evaluated once, however often Body uses it.
With(e, Body(_)) == CHOOSE r \in {Body(x) : x \in {e}} : TRUE

\* case 90: rot90cw of the Y plane (or the whole greyscale image) into temp_buf,
\* then, for YUV 4:2:0 planar, of the U and the V plane.
map_rot90cw(m, tmp, planes) ==
    With(rot90cw(m, planes[1].off, Dest(tmp), planes[1].off,
                 planes[1].size, planes[1].width, planes[1].height),
         LAMBDA y :
           IF Len(planes) = 1
           THEN y
           ELSE With(rot90cw(m, planes[2].off, y, planes[2].off,
                             planes[2].size, planes[2].width, planes[2].height),
                     LAMBDA u :
                       rot90cw(m, planes[3].off, u, planes[3].off,
                               planes[3].size, planes[3].width, planes[3].height)))

\* case 270: the same with rot90ccw.
map_rot90ccw(m, tmp, planes) ==
    With(rot90ccw(m, planes[1].off, Dest(tmp), planes[1].off,
                  planes[1].size, planes[1].width, planes[1].height),
         LAMBDA y :
           IF Len(planes) = 1
           THEN y
           ELSE With(rot90ccw(m, planes[2].off, y, planes[2].off,
                              planes[2].size, planes[2].width, planes[2].height),
                     LAMBDA u :
                       rot90ccw(m, planes[3].off, u, planes[3].off,
                                planes[3].size, planes[3].width, planes[3].height)))

\* case 180: reverse_inplace_quad of each plane of the frame itself.
map_reverse(m, planes) ==
    With(reverse_inplace_quad(Dest(m), planes[1].off, planes[1].size),
         LAMBDA y :
           IF Len(planes) = 1
           THEN y
           ELSE With(reverse_inplace_quad(y, planes[2].off, planes[2].size),
                     LAMBDA u :
                       reverse_inplace_quad(u, planes[3].off, planes[3].size)))

\* The switch on deg, the planes and the size of the frame being known.
map_switch(deg, m, tmp, planes, size) ==
    CASE deg = 90 ->
           With(map_rot90cw(m, tmp, planes),
                LAMBDA r :
                  [ret |-> 0, map |-> memcpy(m, r.mem, size), heap |-> r.mem,
                   wr |-> r.wr, oob |-> r.oob \/ memcpy_oob(m, r.mem, size)])
      [] deg = 180 ->
           With(map_reverse(m, planes),
                LAMBDA r :
                  [ret |-> 0, map |-> r.mem, heap |-> tmp,
                   wr |-> ZeroCounts(Cardinality(DOMAIN tmp)), oob |-> r.oob])
      [] deg = 270 ->
           With(map_rot90ccw(m, tmp, planes),
                LAMBDA r :
                  [ret |-> 0, map |-> memcpy(m, r.mem, size), heap |-> r.mem,
                   wr |-> r.wr, oob |-> r.oob \/ memcpy_oob(m, r.mem, size)])
      [] OTHER ->
           [ret |-> -1, map |-> m, heap |-> tmp,
            wr |-> ZeroCounts(Cardinality(DOMAIN tmp)), oob |-> FALSE]

\* rotate_map(cnt, m) with cnt->rotate_data.temp_buf pointing to tmp: the return
\* value, the frame and the block afterwards, the writes the rot90 calls made to
\* each byte of the block, and whether an access fell outside a block.
rotate_map_result(deg, type, width, height, m, tmp) ==
    With(map_planes(type, width, height),
         LAMBDA planes :
           With(map_size(type, width, height),
                LAMBDA size : map_switch(deg, m, tmp, planes, size)))

\* One captured frame, of the capture size, is handed to rotate_map.
rotate_map ==
    /\ pc \in {"ready", "mapped"}
    /\ \E p \in Patterns :
         \E m \in {Frame(p, map_size(imgs_type, cap_width, cap_height))} :
           \E r \in {rotate_map_result(degrees, imgs_type, cap_width, cap_height,
                                       m, heap)} :
             /\ map_pat' = p
             /\ map' = r.map
             /\ heap' = r.heap
             /\ ret' = r.ret
             /\ temp_wr' = r.wr
             /\ oob' = r.oob
    /\ pc' = "mapped"
    /\ UNCHANGED <<conf_rotate_deg, degrees, cap_width, cap_height, imgs_width,
                   imgs_height, imgs_type, temp_buf, req, post_init, n_malloc,
                   n_free, x_vars>>

\* ------------------------------------------------------------------ Spec

Init ==
    /\ CtxStart
    /\ xbuf = NoBlock /\ xw = 0 /\ xh = 0 /\ xorig = NoBlock /\ xhist = <<>>
    /\ xprev = NoBlock /\ xwr = NoBlock /\ xoob = FALSE

Next == rotate_init \/ rotate_map \/ rotate_deinit

Spec == Init /\ [][Next]_vars

\* ------------------------------------------------- properties of the transforms

\* C1: after reverse_inplace_quad on an extent whose size is a positive multiple
\* of 4, the extent is the byte-for-byte reversal of what it was:
\* after[i] = before[size-1-i] for every i in [0,size).
C1_ReverseIsByteReversal ==
    (xhist # <<>> /\ xhist[Len(xhist)] = "rev")
        => \A i \in 0..(xw * xh - 1) : xbuf[i] = xprev[xw * xh - 1 - i]

\* C7: rot90cw with (width, height) followed by rot90ccw with (height, width) on
\* the result gives back the original raster, byte for byte.
C7_CwThenCcwIsIdentity ==
    xhist = <<"cw", "ccw">> => xbuf = xorig

\* A non-square raster went through rot90cw and rot90ccw, and each call moved bytes.
C7_Witness ==
    /\ xhist = <<"cw", "ccw">>
    /\ xw = 4 /\ xh = 3
    /\ xprev # xorig
    /\ xbuf # xprev

\* C9: reverse_inplace_quad applied twice to a buffer whose size is a positive
\* multiple of 4 leaves the buffer with its original bytes.
C9_ReverseTwiceIsIdentity ==
    xhist = <<"rev", "rev">> => xbuf = xorig

\* A buffer of three 4-byte groups (an odd count) was reversed twice, the first
\* call having changed it.
C9_Witness ==
    /\ xhist = <<"rev", "rev">>
    /\ xw * xh = 12
    /\ xprev # xorig
    /\ xbuf = xorig

\* ------------------------------------------------- properties of rotate_init

\* C2: for every integer k, negative k included, rotate_init entered with the
\* angle 90*k leaves the same degrees as rotate_init entered with (90*k) mod 360
\* taken in [0,360), and that value is one of 0, 90, 180, 270.
C2_AngleNormalized ==
    (pc # "start" /\ req.angle % 90 = 0)
        => /\ degrees = rotate_init_result(req.angle % 360, imgs_type,
                                           req.width, req.height).degrees
           /\ degrees \in {0, 90, 180, 270}

\* C3: for every requested angle, positive or negative, that is not a multiple
\* of 90, and every format and capture size, rotate_init ends with degrees = 0
\* and temp_buf NULL.
C3_InvalidAngleDisables ==
    (pc # "start" /\ req.angle % 90 # 0)
        => (degrees = 0 /\ temp_buf = "NULL")

\* C4: after rotate_init, for every requested angle, format and capture size:
\* with degrees 90 or 270 the output width is the capture height and the output
\* height the capture width; with degrees 0 or 180 (a disabled rotation
\* included) the output dimensions are the capture dimensions.
C4_DimensionSwap ==
    pc # "start"
        => /\ degrees \in {90, 270}
                => (imgs_width = req.height /\ imgs_height = req.width)
           /\ degrees \in {0, 180}
                => (imgs_width = req.width /\ imgs_height = req.height)

\* ------------------------------------------------- properties of rotate_map

\* C5: rotate_map returns failure exactly when degrees is none of 0, 90, 180,
\* 270; with degrees 0 it returns success and leaves every byte of the frame as
\* it was, and with a value outside the four it returns failure and leaves the
\* frame as it was.
C5_DispatcherResult ==
    pc = "mapped"
        => /\ (ret = -1) = (degrees \notin {0, 90, 180, 270})
           /\ ret \in {0, -1}
           /\ degrees = 0
                => (ret = 0 /\ map = Frame(map_pat, Cardinality(DOMAIN map)))
           /\ degrees \notin {0, 90, 180, 270}
                => (ret = -1 /\ map = Frame(map_pat, Cardinality(DOMAIN map)))

\* C6: for a width x height raster with size = width*height, rot90cw stores
\* dst[x*height + y] = src[(height-1-y)*width + x] for all x in [0,width) and y
\* in [0,height), writes every byte of dst in [0,size) exactly once and reads
\* only bytes of src in [0,size); so rotate_map with degrees 90 on a greyscale
\* frame leaves frame[x*H + y] equal to the original frame[(H-1-y)*W + x], and
\* the original bottom-left pixel, at (H-1)*W, ends at index 0.
C6_Rot90cwPlacement ==
    (pc = "mapped" /\ degrees = 90 /\ imgs_type = VIDEO_PALETTE_GREY)
        => \A src \in {Frame(map_pat, cap_width * cap_height)} :
             /\ ~oob
             /\ DOMAIN map = 0..(cap_width * cap_height - 1)
             /\ DOMAIN heap = 0..(cap_width * cap_height - 1)
             /\ \A i \in 0..(cap_width * cap_height - 1) : temp_wr[i] = 1
             /\ \A x \in 0..(cap_width - 1), y \in 0..(cap_height - 1) :
                  /\ heap[x * cap_height + y] = src[(cap_height - 1 - y) * cap_width + x]
                  /\ map[x * cap_height + y] = src[(cap_height - 1 - y) * cap_width + x]
             /\ map[0] = src[(cap_height - 1) * cap_width]

\* A 32 x 16 greyscale frame holding i mod 256 at index i went through
\* rotate_map with degrees 90: index 0 now holds the byte of index 15*32 = 480.
C6_Witness ==
    /\ pc = "mapped" /\ degrees = 90 /\ imgs_type = VIDEO_PALETTE_GREY
    /\ cap_width = 32 /\ cap_height = 16
    /\ map_pat = 0
    /\ ret = 0
    /\ map[0] = 224
    /\ map # Frame(0, 512)

\* Byte k of the plane of src at offset off, width x height, turned clockwise by
\* deg degrees.  Row r, column c of the turned plane (height columns wide for 90
\* and 270) is, for 90, row height-1-c, column r of the plane; for 270, row c,
\* column width-1-r; for 180 the plane is read backwards.
TurnedByte(src, off, width, height, deg, k) ==
    CASE deg = 90 ->
           src[off + (height - 1 - (k % height)) * width + (k \div height)]
      [] deg = 180 ->
           src[off + (width * height - 1 - k)]
      [] deg = 270 ->
           src[off + (k % height) * width + (width - 1 - (k \div height))]

\* C8: for YUV 4:2:0 planar, degrees 90, 180 or 270 and capture dimensions that
\* are multiples of 16, the frame after rotate_map is the luma plane (the first
\* W*H bytes, W x H), chroma plane 1 and chroma plane 2 (W*H/4 bytes each,
\* W/2 x H/2), each turned by that angle on its own; and no byte outside
\* [0, W*H*3/2) of the frame or of temp_buf is read or written.
C8_PlaneIsolation ==
    (pc = "mapped" /\ imgs_type = VIDEO_PALETTE_YUV420P /\ degrees \in {90, 180, 270})
        => \A src \in {Frame(map_pat, (cap_width * cap_height * 3) \div 2)} :
             LET W  == cap_width
                 H  == cap_height
                 wh == cap_width * cap_height
                 q  == (cap_width * cap_height) \div 4
             IN  /\ ~oob
                 /\ DOMAIN map = 0..((wh * 3) \div 2 - 1)
                 /\ degrees \in {90, 270} => DOMAIN heap = 0..((wh * 3) \div 2 - 1)
                 /\ \A k \in 0..(wh - 1) :
                      map[k] = TurnedByte(src, 0, W, H, degrees, k)
                 /\ \A k \in 0..(q - 1) :
                      /\ map[wh + k]
                           = TurnedByte(src, wh, W \div 2, H \div 2, degrees, k)
                      /\ map[wh + q + k]
                           = TurnedByte(src, wh + q, W \div 2, H \div 2, degrees, k)

\* A 16 x 32 planar frame went through rotate_map with degrees 270 and changed.
C8_Witness ==
    /\ pc = "mapped" /\ imgs_type = VIDEO_PALETTE_YUV420P /\ degrees = 270
    /\ cap_width = 16 /\ cap_height = 32
    /\ map_pat = 1
    /\ ret = 0
    /\ map # Frame(1, 768)

\* ------------------------------------------------- the life of temp_buf

\* C10: between rotate_init and rotate_deinit, after any number of rotate_map
\* calls, temp_buf points to a block exactly when degrees is 90 or 270 (the
\* format then being a supported one); the block holds width*height bytes for
\* greyscale and width*height*3/2 for planar, in output dimensions, which is the
\* number of bytes rotate_map copies back; it was allocated once, by
\* rotate_init; rotate_map neither allocates, frees nor replaces it, nor changes
\* degrees or the dimensions; and rotate_deinit frees it once if it exists and
\* does nothing otherwise.
C10_ScratchLifecycle ==
    /\ pc \in {"ready", "mapped"}
         => /\ (temp_buf # "NULL") = (degrees \in {90, 270})
            /\ temp_buf # "NULL"
                 => /\ imgs_type \in {VIDEO_PALETTE_YUV420P, VIDEO_PALETTE_GREY}
                    /\ Cardinality(DOMAIN heap)
                         = IF imgs_type = VIDEO_PALETTE_GREY
                           THEN imgs_width * imgs_height
                           ELSE (imgs_width * imgs_height * 3) \div 2
                    /\ Cardinality(DOMAIN heap)
                         = map_size(imgs_type, cap_width, cap_height)
            /\ n_malloc = IF temp_buf # "NULL" THEN 1 ELSE 0
            /\ n_free = 0
            /\ post_init = [degrees |-> degrees, width |-> imgs_width,
                            height |-> imgs_height, cap_width |-> cap_width,
                            cap_height |-> cap_height, temp_buf |-> temp_buf,
                            size |-> Cardinality(DOMAIN heap)]
    /\ pc = "done"
         => /\ n_malloc = IF post_init.temp_buf # "NULL" THEN 1 ELSE 0
            /\ n_free = n_malloc
            /\ degrees = post_init.degrees
            /\ imgs_width = post_init.width /\ imgs_height = post_init.height

\* A planar context with a block went through rotate_map and then rotate_deinit,
\* which freed the block.
C10_Witness ==
    /\ pc = "done"
    /\ imgs_type = VIDEO_PALETTE_YUV420P
    /\ post_init.temp_buf = "block" /\ post_init.size = 768
    /\ ret = 0 /\ Cardinality(DOMAIN map) = 768
    /\ n_malloc = 1 /\ n_free = 1

====
